---- MODULE Spec2Model ----
(***************************************************************************)
(* Model of scraper.py: the command line entry point, the argument         *)
(* validator, the page fetcher with its listing extractor and detail       *)
(* enricher, and the thread-pool orchestrator that collects the pages.     *)
(*                                                                         *)
(* Text is kept abstract where no checked property reads it: the title     *)
(* regexes (usable area, land size, flat type) and the price clean-up are  *)
(* not part of a record here.  A page-count argument is a sequence of      *)
(* characters, each character named by a short string.                     *)
(***************************************************************************)
EXTENDS Integers, Sequences, FiniteSets, Bags, TLC

VARIABLES
    argv,          \* sys.argv[1:]
    pc,            \* position of the main thread
    exit_code,     \* process exit status, NotExited while running
    request,       \* (estate_type, region, num_pages) bound at line 375
    stdout,        \* lines printed so far
    futures,       \* page number -> the Future submitted for it
    netlog,        \* bag of the GET requests issued so far
    all_listings,  \* the accumulator of scrape_multiple_pages
    ac,            \* the state of the as_completed iterator
    completion,    \* history: page numbers in the order their futures finished
    files          \* CSV files written so far

vars == <<argv, pc, exit_code, request, stdout, futures, netlog,
          all_listings, ac, completion, files>>

None == "None"
NotExited == -1

----------------------------------------------------------------------------
(* Bounds of the model *)

MaxPages == 2
MaxLen == 3

----------------------------------------------------------------------------
(* Program constants *)

THREAD_COUNT == 10

VALID_ESTATE_TYPES == {"byty", "domy"}

VALID_REGIONS ==
    {"praha", "jihocesky-kraj", "jihomoravsky-kraj", "karlovarsky-kraj",
     "kralovehradecky-kraj", "liberecky-kraj", "moravskoslezsky-kraj",
     "olomoucky-kraj", "pardubicky-kraj", "plzensky-kraj",
     "stredocesky-kraj", "ustecky-kraj", "vysocina", "zlinsky-kraj"}

----------------------------------------------------------------------------
(* Characters of a page-count argument.                                    *)
(* "sup2" names U+00B2 (superscript two): str.isdigit() is true of it and  *)
(* int() rejects it.  "ar3" names U+0663 (Arabic-Indic digit three):       *)
(* a decimal digit that int() reads as 3.                                  *)

AsciiDigits == {"0", "1", "2", "3", "5"}
DecimalChars == AsciiDigits \cup {"ar3"}
OtherChars == {"-", "+", "."}
PageChars == DecimalChars \cup {"sup2"} \cup OtherChars

\* str.isdigit() on one character
CharIsDigit(c) == c \in DecimalChars \cup {"sup2"}

\* the value int() gives a decimal digit
DigitValue(c) ==
    CASE c = "0" -> 0
      [] c = "1" -> 1
      [] c = "2" -> 2
      [] c \in {"3", "ar3"} -> 3
      [] c = "5" -> 5

\* str.isdigit(): false of the empty string
isdigit(s) == Len(s) > 0 /\ \A i \in 1..Len(s) : CharIsDigit(s[i])

\* int(s) raises ValueError unless s (sign and blanks aside, which isdigit
\* has excluded where int is called) is made of decimal digits
IntRaises(s) == Len(s) = 0 \/ \E i \in 1..Len(s) : s[i] \notin DecimalChars

RECURSIVE IntValue(_)
IntValue(s) ==
    IF Len(s) = 0 THEN 0
    ELSE 10 * IntValue(SubSeq(s, 1, Len(s) - 1)) + DigitValue(s[Len(s)])

\* mutant of PagesCheck: the comparison of line 87 written < 0
PagesCheckNonNegative(pages) ==
    IF ~isdigit(pages) THEN "reject"
    ELSE IF IntRaises(pages) THEN "int_error"
    ELSE IF IntValue(pages) < 0 THEN "reject"
    ELSE "ok"

\* line 87: not pages.isdigit() or int(pages) <= 0
PagesCheck(pages) ==
    IF ~isdigit(pages) THEN "reject"
    ELSE IF IntRaises(pages) THEN "int_error"
    ELSE IF IntValue(pages) <= 0 THEN "reject"
    ELSE "ok"

\* mutant of validate_args: the region check of lines 81-85 left out
validate_args_any_region(estate_type, region, pages) ==
    IF estate_type \notin VALID_ESTATE_TYPES \/ PagesCheck(pages) # "ok"
    THEN [raised |-> TRUE, exc |-> "ValueError",
          msg |-> <<"Invalid argument", estate_type>>, value |-> None]
    ELSE [raised |-> FALSE, exc |-> None, msg |-> <<>>,
          value |-> [estate_type |-> estate_type, region |-> region,
                     num_pages |-> IntValue(pages)]]

\* validate_args: the tuple it returns, or the ValueError it raises
validate_args(estate_type, region, pages) ==
    IF estate_type \notin VALID_ESTATE_TYPES
    THEN [raised |-> TRUE, exc |-> "ValueError",
          msg |-> <<"Invalid estate type", estate_type>>, value |-> None]
    ELSE IF region # "all" /\ region \notin VALID_REGIONS
    THEN [raised |-> TRUE, exc |-> "ValueError",
          msg |-> <<"Invalid region", region>>, value |-> None]
    ELSE IF PagesCheck(pages) = "reject"
    THEN [raised |-> TRUE, exc |-> "ValueError",
          msg |-> <<"Pages must be a positive integer", pages>>, value |-> None]
    ELSE IF PagesCheck(pages) = "int_error"
    THEN [raised |-> TRUE, exc |-> "ValueError",
          msg |-> <<"invalid literal for int()", pages>>, value |-> None]
    ELSE [raised |-> FALSE, exc |-> None, msg |-> <<>>,
          value |-> [estate_type |-> estate_type, region |-> region,
                     num_pages |-> IntValue(pages)]]

----------------------------------------------------------------------------
(* What the site serves.  A listing fragment is one <li> of an index page: *)
(* pve are the texts of its p.css-d7upve elements, price the text of its   *)
(* p.css-ca9wwd element, href the target of its first link, img the src    *)
(* of its img.css-1q0j11k element ("none": no such element, "nosrc": the   *)
(* element has no src attribute), detail what the site answers to a GET    *)
(* of the listing's own page.                                              *)

DetailFull ==
    [kind |-> "http", status |-> 200,
     crumbs |-> <<"Domu", "Prodej", "Byty", "Praha", "Praha 4", "Michle">>,
     energy |-> "B"]
DetailShort ==
    [kind |-> "http", status |-> 200,
     crumbs |-> <<"Domu", "Prodej", "Domy", "Vysocina">>, energy |-> None]
Detail404 ==
    [kind |-> "http", status |-> 404, crumbs |-> <<"Domu">>, energy |-> "G"]
DetailError ==
    [kind |-> "raise", status |-> 0, crumbs |-> <<>>, energy |-> None]

FragA ==
    [pve |-> <<"Byt 2+kk 55 m2", "Michle">>, price |-> "5 200 000 Kc",
     href |-> "/detail/a", img |-> "//img/a.jpg", detail |-> DetailFull]
FragB ==
    [pve |-> <<"Dum 120 m2, pozemek 450 m2", "Telc">>, price |-> "Cena na vyzadani",
     href |-> "/detail/b", img |-> "//img/b.jpg", detail |-> DetailShort]
FragC ==
    [pve |-> <<"Byt 1+1 40 m2">>, price |-> "3 100 000 Kc",
     href |-> "/detail/c", img |-> "none", detail |-> Detail404]
FragD ==
    [pve |-> <<"Byt 3+kk 80 m2", "Brno">>, price |-> "7 900 000 Kc",
     href |-> "/detail/d", img |-> "//img/d.jpg", detail |-> DetailError]
FragNoTitle ==
    [pve |-> <<>>, price |-> "1 000 000 Kc",
     href |-> "/detail/e", img |-> "//img/e.jpg", detail |-> DetailFull]
FragNoPrice ==
    [pve |-> <<"Byt 4+1 90 m2", "Plzen">>, price |-> None,
     href |-> "/detail/f", img |-> "//img/f.jpg", detail |-> DetailFull]
FragNoLink ==
    [pve |-> <<"Byt 2+1 60 m2", "Liberec">>, price |-> "4 000 000 Kc",
     href |-> None, img |-> "//img/g.jpg", detail |-> DetailFull]
FragBadImg ==
    [pve |-> <<"Byt 5+kk 130 m2", "Zlin">>, price |-> "9 000 000 Kc",
     href |-> "/detail/h", img |-> "nosrc", detail |-> DetailFull]

\* The answers the site may give to the GET of an index page.  A
\* non-success answer still carries markup with a listing in it.
IndexResponses ==
    { [kind |-> "raise", status |-> 0, items |-> <<>>],
      [kind |-> "http", status |-> 503, items |-> <<FragA>>],
      [kind |-> "http", status |-> 200, items |-> <<>>],
      [kind |-> "http", status |-> 200, items |-> <<FragA, FragB>>],
      [kind |-> "http", status |-> 200,
       items |-> <<FragNoTitle, FragNoLink, FragNoPrice, FragC>>],
      [kind |-> "http", status |-> 200, items |-> <<FragA, FragD>>],
      [kind |-> "http", status |-> 200, items |-> <<FragBadImg>>] }

----------------------------------------------------------------------------
(* URLs and results.  A function of the program is modelled by an operator *)
(* that returns how the call ended: raised, the exception, the value, and  *)
(* gets, the GET requests it issued on the way.                            *)

IndexUrl(estate_type, region, page) ==
    [path |-> "hledani/prodej", estate |-> estate_type,
     region |-> IF region # "all" THEN region ELSE None,
     page |-> page, href |-> None]

DetailUrl(href) ==
    [path |-> "https://www.sreality.cz", estate |-> None, region |-> None,
     page |-> 0, href |-> href]

NoDetails == [Region |-> None, District |-> None, City |-> None, EnergyRank |-> None]

\* extract_listing_details: requests.get may raise; nothing catches it
extract_listing_details(href, resp) ==
    IF resp.kind = "raise"
    THEN [raised |-> TRUE, exc |-> "ConnectionError", value |-> NoDetails,
          gets |-> <<DetailUrl(href)>>]
    ELSE IF resp.status # 200
    THEN [raised |-> FALSE, exc |-> None, value |-> NoDetails,
          gets |-> <<DetailUrl(href)>>]
    ELSE [raised |-> FALSE, exc |-> None,
          value |-> [Region |-> IF Len(resp.crumbs) > 3 THEN resp.crumbs[4] ELSE None,
                     District |-> IF Len(resp.crumbs) > 4 THEN resp.crumbs[5] ELSE None,
                     City |-> IF Len(resp.crumbs) > 5 THEN resp.crumbs[6] ELSE None,
                     EnergyRank |-> resp.energy],
          gets |-> <<DetailUrl(href)>>]

\* parse_house and parse_flat: the record, with the enrichment fields of
\* the detail page
parse_estate(kind, title, location, link, image_url, resp) ==
    LET extra == extract_listing_details(link[2], resp) IN
    IF extra.raised
    THEN [raised |-> TRUE, exc |-> extra.exc, value |-> <<>>, gets |-> extra.gets]
    ELSE [raised |-> FALSE, exc |-> None,
          value |-> << [Title |-> title, PropertyType |-> kind,
                        Location |-> location,
                        Region |-> extra.value.Region,
                        District |-> extra.value.District,
                        City |-> extra.value.City,
                        EnergyRank |-> extra.value.EnergyRank,
                        URL |-> link, Image |-> image_url] >>,
          gets |-> extra.gets]

parse_house(title, location, link, image_url, resp) ==
    parse_estate("House", title, location, link, image_url, resp)

parse_flat(title, location, link, image_url, resp) ==
    parse_estate("Flat", title, location, link, image_url, resp)

Skipped == [raised |-> FALSE, exc |-> None, value |-> <<>>, gets |-> <<>>]

\* mutant of has_required: the price element left out of the test
has_required_but_price(title_tag, location_tag, price_tag, link_tag) ==
    title_tag # None /\ location_tag # <<>> /\ link_tag # None

\* line 262: a Tag is truthy whatever it holds, a list of tags when not empty
has_required(title_tag, location_tag, price_tag, link_tag) ==
    title_tag # None /\ location_tag # <<>> /\ price_tag # None /\ link_tag # None

\* parse_listing: value is <<record>>, or <<>> for the None it returns
parse_listing(listing, estate_type) ==
    LET title_tag == IF listing.pve # <<>> THEN listing.pve[1] ELSE None
        location_tag == listing.pve
        price_tag == listing.price
        link_tag == listing.href
        img_tag == listing.img
    IN  IF has_required(title_tag, location_tag, price_tag, link_tag)
        THEN LET title == title_tag
                 location == IF Len(location_tag) > 1 THEN location_tag[2] ELSE "Unknown"
                 link == <<"https://www.sreality.cz", link_tag>>
             IN  IF img_tag = "nosrc"
                 THEN [raised |-> TRUE, exc |-> "KeyError", value |-> <<>>, gets |-> <<>>]
                 ELSE LET image_url == IF img_tag # "none" THEN <<"https:", img_tag>>
                                       ELSE <<"No image">>
                      IN  IF estate_type = "domy"
                          THEN parse_house(title, location, link, image_url, listing.detail)
                          ELSE IF estate_type = "byty"
                          THEN parse_flat(title, location, link, image_url, listing.detail)
                          ELSE Skipped
        ELSE Skipped

\* the loop of lines 313-316 from item i on
RECURSIVE parse_items(_, _, _, _, _)
parse_items(items, i, estate_type, listings, gets) ==
    IF i > Len(items)
    THEN [raised |-> FALSE, exc |-> None, value |-> listings, gets |-> gets]
    ELSE LET parsed_listing == parse_listing(items[i], estate_type) IN
         IF parsed_listing.raised
         THEN [raised |-> TRUE, exc |-> parsed_listing.exc, value |-> <<>>,
               gets |-> gets \o parsed_listing.gets]
         ELSE parse_items(items, i + 1, estate_type,
                          listings \o parsed_listing.value,
                          gets \o parsed_listing.gets)

\* mutant of get_listings: the status test of lines 303-308 left out
get_listings_any_status(estate_type, response) ==
    IF response.kind = "raise"
    THEN [raised |-> TRUE, exc |-> "ConnectionError", value |-> <<>>, gets |-> <<>>]
    ELSE parse_items(response.items, 1, estate_type, <<>>, <<>>)

\* get_listings from the moment the index page's GET returns or raises
get_listings(estate_type, response) ==
    IF response.kind = "raise"
    THEN [raised |-> TRUE, exc |-> "ConnectionError", value |-> <<>>, gets |-> <<>>]
    ELSE IF response.status # 200
    THEN [raised |-> FALSE, exc |-> None, value |-> <<>>, gets |-> <<>>]
    ELSE parse_items(response.items, 1, estate_type, <<>>, <<>>)

----------------------------------------------------------------------------
(* The command lines tried.  ArgTriples feeds the validator alone;         *)
(* MainArgv are the command lines of whole runs, whose page counts stay    *)
(* within MaxPages.  PagesInputs are all strings of at most MaxLen         *)
(* characters of PageChars.                                                *)

EstateInputs == {"byty", "domy", "pozemky", ""}
RegionInputs == VALID_REGIONS \cup {"all", "brno", "Praha"}

RECURSIVE StringsUpTo(_)
StringsUpTo(n) ==
    IF n = 0 THEN {<<>>}
    ELSE LET shorter == StringsUpTo(n - 1) IN
         shorter \cup {Append(s, c) : s \in shorter, c \in PageChars}

PagesInputs == StringsUpTo(MaxLen)

MainPages ==
    {<<>>, <<"0">>, <<"-", "1">>, <<"sup2">>, <<"1", ".", "5">>}
        \cup {<<c>> : c \in {d \in AsciiDigits : DigitValue(d) \in 1..MaxPages}}

MainArgv ==
    {<<e, r, p>> : e \in {"byty", "pozemky"}, r \in {"praha", "brno"}, p \in MainPages}
        \cup {<<"domy", "all", p>> : p \in MainPages}

\* every estate type with every region on the page counts of MainPages, and
\* every page count of PagesInputs with four pairs of estate type and region
ArgTriples ==
    {<<e, r, p>> : e \in EstateInputs, r \in RegionInputs, p \in MainPages}
        \cup {<<e, r, p>> : e \in {"byty", "pozemky"}, r \in {"all", "brno"},
                            p \in PagesInputs}

WrongArgc == {<<>>, <<"byty", "praha">>, <<"byty", "praha", "1", "2">>}

----------------------------------------------------------------------------
(* State *)

NoRequest == [estate_type |-> None, region |-> None, num_pages |-> 0]

Line(kind, page, text) == [kind |-> kind, page |-> page, text |-> text]

\* a Future; response and gets are the history of its task: the answer to
\* its index GET and the detail GETs it issued
NewFuture ==
    [state |-> "PENDING", response |-> None, result |-> <<>>, exception |-> None,
     gets |-> <<>>]

\* as_completed before it is entered; taken is the history of finished:
\* the futures found finished on entry
NoIterator == [finished |-> {}, waiter |-> <<>>, pending |-> {}, taken |-> {}]

Pages == DOMAIN futures

InState(st) == {p \in Pages : futures[p].state = st}

Idle ==
    /\ pc = "start"
    /\ exit_code = NotExited
    /\ request = NoRequest
    /\ stdout = <<>>
    /\ futures = <<>>
    /\ netlog = EmptyBag
    /\ all_listings = <<>>
    /\ ac = NoIterator
    /\ completion = <<>>
    /\ files = <<>>

Init == (argv \in WrongArgc \/ argv \in MainArgv) /\ Idle

InitValidator == argv \in ArgTriples /\ Idle

----------------------------------------------------------------------------
(* The main thread *)

\* lines 368-372
Usage ==
    /\ pc = "start"
    /\ Len(argv) # 3
    /\ stdout' = Append(stdout, Line("usage", 0, "Usage: python scraper.py"))
    /\ exit_code' = 1
    /\ pc' = "exited"
    /\ UNCHANGED <<argv, request, futures, netlog, all_listings, ac, completion, files>>

\* lines 374-381, and 396-401 when validate_args raises
Validate ==
    /\ pc = "start"
    /\ Len(argv) = 3
    /\ LET v == validate_args(argv[1], argv[2], argv[3]) IN
       IF v.raised
       THEN /\ stdout' = Append(stdout, Line("error", 0, v.msg[1]))
            /\ exit_code' = 1
            /\ pc' = "exited"
            /\ UNCHANGED request
       ELSE /\ request' = v.value
            /\ stdout' = Append(stdout, Line("scraping", 0, "Scraping"))
            /\ pc' = "submit"
            /\ UNCHANGED exit_code
    /\ UNCHANGED <<argv, futures, netlog, all_listings, ac, completion, files>>

\* mutant of PageRange: range(pages) for range(1, pages + 1)
PageRangeFromZero(pages) == 0..(pages - 1)

\* the pages the dict comprehension of lines 341-344 submits, in order
PageRange(pages) == 1..pages

\* lines 341-344: one executor.submit per page
Submit ==
    /\ pc = "submit"
    /\ \E page \in PageRange(request.num_pages) :
          /\ page \notin Pages
          /\ \A q \in PageRange(request.num_pages) : q < page => q \in Pages
          /\ futures' = [q \in Pages \cup {page} |->
                            IF q = page THEN NewFuture ELSE futures[q]]
    /\ UNCHANGED <<argv, pc, exit_code, request, stdout, netlog, all_listings,
                   ac, completion, files>>

\* line 346: as_completed(futures) takes the futures already finished and
\* installs its waiter on the others, in one step under the futures' locks
EnterAsCompleted ==
    /\ pc = "submit"
    /\ PageRange(request.num_pages) \subseteq Pages
    /\ ac' = [finished |-> InState("FINISHED"), waiter |-> <<>>,
              pending |-> Pages \ InState("FINISHED"),
              taken |-> InState("FINISHED")]
    /\ pc' = "collect"
    /\ UNCHANGED <<argv, exit_code, request, stdout, futures, netlog, all_listings,
                   completion, files>>

\* as_completed yields the futures taken on entry first, in the order of a
\* set, and then the others in the order they finished
NextYield ==
    IF ac.finished # {} THEN ac.finished
    ELSE IF ac.waiter # <<>> THEN {Head(ac.waiter)}
    ELSE {}

AfterYield(page) ==
    IF page \in ac.finished
    THEN [ac EXCEPT !.finished = @ \ {page}]
    ELSE [ac EXCEPT !.waiter = Tail(@), !.pending = @ \ {page}]

\* mutant of collect_future: the accumulator assigned, not extended
collect_future_overwrites(listings_so_far, out, page_num, future) ==
    IF future.exception # None
    THEN [all_listings |-> listings_so_far,
          stdout |-> Append(out, Line("page_error", page_num, future.exception))]
    ELSE IF future.result # <<>>
    THEN [all_listings |-> future.result,
          stdout |-> Append(out, Line("page_ok", page_num, "scraped successfully"))]
    ELSE [all_listings |-> listings_so_far,
          stdout |-> Append(out, Line("page_empty", page_num, "returned no listings"))]

\* lines 347-361: the body of the loop for one future
collect_future(listings_so_far, out, page_num, future) ==
    IF future.exception # None
    THEN [all_listings |-> listings_so_far,
          stdout |-> Append(out, Line("page_error", page_num, future.exception))]
    ELSE IF future.result # <<>>
    THEN [all_listings |-> listings_so_far \o future.result,
          stdout |-> Append(out, Line("page_ok", page_num, "scraped successfully"))]
    ELSE [all_listings |-> listings_so_far,
          stdout |-> Append(out, Line("page_empty", page_num, "returned no listings"))]

\* mutant of Collect: no try around future.result(), so the exception of a
\* page leaves the loop and ends the process with a traceback
CollectUncaught ==
    /\ pc = "collect"
    /\ \E page_num \in NextYield :
          LET r == collect_future(all_listings, stdout, page_num, futures[page_num]) IN
          IF futures[page_num].exception # None
          THEN /\ pc' = "exited"
               /\ exit_code' = 1
               /\ stdout' = Append(stdout, Line("traceback", page_num,
                                                futures[page_num].exception))
               /\ UNCHANGED <<ac, all_listings>>
          ELSE /\ ac' = AfterYield(page_num)
               /\ all_listings' = r.all_listings
               /\ stdout' = r.stdout
               /\ UNCHANGED <<pc, exit_code>>
    /\ UNCHANGED <<argv, request, futures, netlog, completion, files>>

\* lines 346-361: one iteration of the loop
Collect ==
    /\ pc = "collect"
    /\ \E page_num \in NextYield :
          LET r == collect_future(all_listings, stdout, page_num, futures[page_num]) IN
          /\ ac' = AfterYield(page_num)
          /\ all_listings' = r.all_listings
          /\ stdout' = r.stdout
    /\ UNCHANGED <<argv, pc, exit_code, request, futures, netlog, completion, files>>

\* lines 362-364: the loop is over, the with block waits for the workers,
\* scrape_multiple_pages returns
ReturnListings ==
    /\ pc = "collect"
    /\ ac.finished = {}
    /\ ac.pending = {}
    /\ InState("FINISHED") = Pages
    /\ pc' = "returned"
    /\ UNCHANGED <<argv, exit_code, request, stdout, futures, netlog, all_listings,
                   ac, completion, files>>

\* mutant of save_or_report: the file written whatever data holds
save_or_report_always(data, out, written) ==
    [files |-> Append(written, [estate_type |-> request.estate_type,
                                region |-> request.region, rows |-> data]),
     stdout |-> Append(out, Line("saved", 0, "Data saved"))]

\* lines 385-395
save_or_report(data, out, written) ==
    IF data # <<>>
    THEN [files |-> Append(written, [estate_type |-> request.estate_type,
                                     region |-> request.region, rows |-> data]),
          stdout |-> Append(out, Line("saved", 0, "Data saved"))]
    ELSE [files |-> written,
          stdout |-> Append(out, Line("no_data", 0, "No data found."))]

\* mutant of Finish: sys.exit(1) after "No data found."
FinishFailsOnEmpty ==
    /\ pc = "returned"
    /\ LET r == save_or_report(all_listings, stdout, files) IN
          /\ files' = r.files
          /\ stdout' = r.stdout
    /\ exit_code' = IF all_listings = <<>> THEN 1 ELSE 0
    /\ pc' = "exited"
    /\ UNCHANGED <<argv, request, futures, netlog, all_listings, ac, completion>>

\* lines 385-395 and the end of the script
Finish ==
    /\ pc = "returned"
    /\ LET r == save_or_report(all_listings, stdout, files) IN
          /\ files' = r.files
          /\ stdout' = r.stdout
    /\ exit_code' = 0
    /\ pc' = "exited"
    /\ UNCHANGED <<argv, request, futures, netlog, all_listings, ac, completion>>

----------------------------------------------------------------------------
(* The workers of the pool *)

\* a worker takes the task of a page and issues the GET of line 301
WorkerStart(page) ==
    /\ page \in InState("PENDING")
    /\ Cardinality(InState("RUNNING")) < THREAD_COUNT
    /\ futures' = [futures EXCEPT ![page].state = "RUNNING"]
    /\ netlog' = netlog (+) SetToBag({IndexUrl(request.estate_type, request.region, page)})
    /\ UNCHANGED <<argv, pc, exit_code, request, stdout, all_listings, ac,
                   completion, files>>

RECURSIVE SeqToBag(_)
SeqToBag(s) == IF s = <<>> THEN EmptyBag ELSE SetToBag({Head(s)}) (+) SeqToBag(Tail(s))

\* lines 301-319: the GET answers, get_listings runs to its end, and the
\* future takes its result or its exception and tells the waiter
WorkerFinish(page, response) ==
    /\ page \in InState("RUNNING")
    /\ LET r == get_listings(request.estate_type, response) IN
          /\ futures' = [futures EXCEPT ![page] =
                            [state |-> "FINISHED", response |-> response,
                             result |-> r.value,
                             exception |-> IF r.raised THEN r.exc ELSE None,
                             gets |-> r.gets]]
          /\ netlog' = netlog (+) SeqToBag(r.gets)
    /\ completion' = Append(completion, page)
    /\ ac' = IF page \in ac.pending THEN [ac EXCEPT !.waiter = Append(@, page)] ELSE ac
    /\ UNCHANGED <<argv, pc, exit_code, request, stdout, all_listings, files>>

----------------------------------------------------------------------------

Next ==
    \/ Usage
    \/ Validate
    \/ Submit
    \/ EnterAsCompleted
    \/ Collect
    \/ ReturnListings
    \/ Finish
    \/ \E page \in Pages : WorkerStart(page)
    \/ \E page \in Pages, response \in IndexResponses : WorkerFinish(page, response)

Spec == Init /\ [][Next]_vars

\* the validator alone, on every triple of ArgTriples
SpecValidator == InitValidator /\ [][Validate]_vars

----------------------------------------------------------------------------
(* Vocabulary of the properties *)

Range(s) == {s[i] : i \in DOMAIN s}

Last(s) == s[Len(s)]

Origin == "https://www.sreality.cz"

\* a string of decimal digits that denotes a strictly positive integer
PositiveDecimal(p) ==
    /\ Len(p) > 0
    /\ \A i \in 1..Len(p) : p[i] \in DecimalChars
    /\ \E i \in 1..Len(p) : DigitValue(p[i]) # 0

\* the integer a string of decimal digits denotes, by positional weights
RECURSIVE Weighted(_, _)
Weighted(p, i) ==
    IF i > Len(p) THEN 0
    ELSE DigitValue(p[i]) * (10 ^ (Len(p) - i)) + Weighted(p, i + 1)

\* the command lines the validator is to accept
Acceptable(args) ==
    /\ Len(args) = 3
    /\ args[1] \in {"byty", "domy"}
    /\ args[2] \in VALID_REGIONS \cup {"all"}
    /\ PositiveDecimal(args[3])

\* scrape_multiple_pages has returned
ScrapeReturned == pc = "returned" \/ (pc = "exited" /\ request # NoRequest)

IsPageLine(l) == l.kind \in {"page_ok", "page_empty", "page_error"}

\* the per-page reports printed so far, and the pages they name, in order
PageLines == SelectSeq(stdout, IsPageLine)
CollectedOrder == [i \in 1..Len(PageLines) |-> PageLines[i].page]

\* the records of the pages of a sequence, page after page
RECURSIVE ConcatResults(_)
ConcatResults(order) ==
    IF order = <<>> THEN <<>>
    ELSE (IF futures[Head(order)].exception = None
          THEN futures[Head(order)].result ELSE <<>>) \o ConcatResults(Tail(order))

IndexFetches(page) ==
    CopiesIn(IndexUrl(request.estate_type, request.region, page), netlog)

Raised(p) == futures[p].state = "FINISHED" /\ futures[p].exception # None
Normal(p) == futures[p].state = "FINISHED" /\ futures[p].exception = None

\* every page of the request was fetched once and its task ran to its end
AllPagesDone ==
    \A q \in 1..request.num_pages :
        q \in Pages /\ futures[q].state = "FINISHED" /\ IndexFetches(q) = 1

\* the records of every page that returned normally are in the accumulator
NormalPagesKept ==
    \A q \in Pages : Normal(q) => Range(futures[q].result) \subseteq Range(all_listings)

\* a fragment with its four mandatory elements
Complete(f) == f.pve # <<>> /\ f.price # None /\ f.href # None

Served(p) == futures[p].response.items

----------------------------------------------------------------------------
(* C1 *)

\* C1: when the task of a page raises, the run does not abort: it can always
\* take a next step until the process exits, it exits with status zero, and
\* once scrape_multiple_pages has returned every page of the request was
\* fetched and ran to its end, the raising page is reported as failed, and
\* the accumulator holds every record of every page that returned normally.
C1_PageFailureDoesNotAbort ==
    \A p \in Pages : Raised(p) =>
        /\ pc # "exited" => ENABLED Next
        /\ pc = "exited" => exit_code = 0
        /\ ScrapeReturned =>
              /\ AllPagesDone
              /\ Line("page_error", p, futures[p].exception) \in Range(stdout)
              /\ NormalPagesKept

C1_Witness ==
    /\ pc = "exited"
    /\ \E p, q \in Pages :
          /\ Raised(p)
          /\ Normal(q) /\ futures[q].result # <<>>
          /\ Range(futures[q].result) \subseteq Range(all_listings)
          /\ \A o \in Pages \ {p} : Normal(o)

----------------------------------------------------------------------------
(* C2 *)

\* C2: the detail enricher never raises past its boundary: a page answered
\* with success whose markup is well formed finishes without exception, and
\* each of its complete listings has its record in the page's result,
\* whatever the fetch of any listing's detail page did.
C2_EnrichmentNeverAbortsPage ==
    \A p \in InState("FINISHED") :
        (/\ futures[p].response.kind = "http"
         /\ futures[p].response.status = 200
         /\ \A f \in Range(Served(p)) : f.img # "nosrc")
        => /\ futures[p].exception = None
           /\ \A f \in Range(Served(p)) :
                 Complete(f) =>
                    \E r \in Range(futures[p].result) : r.URL = <<Origin, f.href>>

----------------------------------------------------------------------------
(* C3 *)

\* C3 as stated: the process exits non-zero exactly when the arguments are
\* missing or invalid, or when the run produced zero records in total.
C3_NonZeroOnInvalidOrEmpty ==
    pc = "exited" =>
        (exit_code # 0 <=> (~Acceptable(argv) \/ all_listings = <<>>))

\* C3 amended: the process exits non-zero exactly when the arguments are
\* missing or invalid; a run that was fully attempted exits with status
\* zero, whether it produced records or none at all.
C3_NonZeroOnlyOnInvalid ==
    pc = "exited" =>
        /\ exit_code \in {0, 1}
        /\ exit_code # 0 <=> ~Acceptable(argv)

C3_Witness ==
    /\ pc = "exited"
    /\ Acceptable(argv)
    /\ AllPagesDone
    /\ all_listings = <<>>
    /\ exit_code = 0

----------------------------------------------------------------------------
(* C4 *)

\* C4: a run whose arguments the validator rejects issues no GET, submits no
\* task and writes no file, and exits non-zero with the error message as
\* its last output; no GET is issued and no task submitted before the
\* validation has completed.
C4_RejectedRunTouchesNothing ==
    /\ ~Acceptable(argv) =>
          /\ netlog = EmptyBag
          /\ futures = <<>>
          /\ files = <<>>
          /\ pc \in {"start", "exited"}
          /\ pc = "exited" =>
                /\ exit_code # 0
                /\ stdout # <<>>
                /\ Last(stdout).kind \in {"error", "usage"}
    /\ (netlog # EmptyBag \/ futures # <<>>) =>
          /\ pc # "start"
          /\ request # NoRequest

C4_Witness ==
    /\ pc = "exited"
    /\ Len(argv) = 3
    /\ ~Acceptable(argv)
    /\ netlog = EmptyBag
    /\ Last(stdout).kind = "error"
    /\ exit_code = 1

----------------------------------------------------------------------------
(* C5 *)

\* C5: validate_args accepts a triple exactly when the estate type is one of
\* the two allowed, the region one of the 14 allowed or "all", and the page
\* count a string of decimal digits denoting a strictly positive integer;
\* it then returns estate type and region as given and the page count as
\* that integer; on any other triple it raises ValueError, which the main
\* program prints before it exits with status 1.
C5_ValidatorAcceptsExactly ==
    (pc # "start" /\ Len(argv) = 3) =>
        IF Acceptable(argv)
        THEN /\ pc = "submit"
             /\ exit_code = NotExited
             /\ request = [estate_type |-> argv[1], region |-> argv[2],
                           num_pages |-> Weighted(argv[3], 1)]
        ELSE /\ pc = "exited"
             /\ exit_code = 1
             /\ request = NoRequest
             /\ Last(stdout).kind = "error"

C5_Witness ==
    /\ pc = "submit"
    /\ argv[3] = <<"0", "ar3">>
    /\ request = [estate_type |-> "byty", region |-> "all", num_pages |-> 3]

----------------------------------------------------------------------------
(* C6 *)

AllRecords == Range(all_listings) \cup UNION {Range(futures[p].result) : p \in Pages}

ServedFragments == UNION {Range(Served(p)) : p \in InState("FINISHED")}

\* C6: every record of a page's result and of the accumulator was built from
\* a fragment that was served with its title, its location-labelled
\* elements, its price and its link all present; a page that finished
\* normally has one record per complete fragment and none for a fragment
\* that misses one of the four.
C6_NoPartialRecords ==
    /\ \A r \in AllRecords :
          /\ \E f \in ServedFragments : r.URL = <<Origin, f.href>>
          /\ \A f \in ServedFragments :
                r.URL = <<Origin, f.href>> => Complete(f) /\ r.Title = f.pve[1]
    /\ \A p \in Pages : Normal(p) /\ futures[p].response.status = 200 =>
          /\ Len(futures[p].result)
                = Cardinality({i \in DOMAIN Served(p) : Complete(Served(p)[i])})
          /\ \A f \in Range(Served(p)) :
                ~Complete(f) =>
                   \A r \in Range(futures[p].result) : r.URL # <<Origin, f.href>>

C6_Witness ==
    \E p \in Pages :
        /\ Normal(p)
        /\ FragNoPrice \in Range(Served(p))
        /\ Len(futures[p].result) = 1
        /\ all_listings = futures[p].result

----------------------------------------------------------------------------
(* C7 *)

\* C7: at most one file is ever written; a file is written only after every
\* page task has completed and holds the non-empty collection; a run that
\* ends with an empty collection has written no file and reported "no
\* data", and a run that ends with records has written exactly one file.
C7_FileOnlyForData ==
    /\ Len(files) <= 1
    /\ files # <<>> =>
          /\ pc = "exited"
          /\ AllPagesDone
          /\ all_listings # <<>>
          /\ files[1].rows = all_listings
    /\ (pc = "exited" /\ Acceptable(argv)) =>
          IF all_listings = <<>>
          THEN /\ files = <<>>
               /\ Last(stdout).kind = "no_data"
          ELSE /\ Len(files) = 1
               /\ Last(stdout).kind = "saved"

C7_Witness ==
    /\ pc = "exited"
    /\ request # NoRequest
    /\ files = <<>>
    /\ Last(stdout).kind = "no_data"

----------------------------------------------------------------------------
(* C8 *)

NonSuccess(p) ==
    /\ futures[p].state = "FINISHED"
    /\ futures[p].response.kind = "http"
    /\ futures[p].response.status # 200

\* C8: a page whose index GET is answered with a non-200 status finishes
\* without exception, with an empty result and without any detail GET; the
\* orchestrator reports it as empty and never as failed; and when
\* scrape_multiple_pages returns every page of the request was fetched and
\* the records of the pages that returned normally are in the accumulator.
C8_NonSuccessIsAnEmptyPage ==
    \A p \in Pages : NonSuccess(p) =>
        /\ futures[p].exception = None
        /\ futures[p].result = <<>>
        /\ futures[p].gets = <<>>
        /\ \A l \in Range(PageLines) : l.page = p => l.kind = "page_empty"
        /\ ScrapeReturned =>
              /\ \E l \in Range(PageLines) : l.page = p
              /\ AllPagesDone
              /\ NormalPagesKept

C8_Witness ==
    /\ ScrapeReturned
    /\ \E p, q \in Pages :
          /\ NonSuccess(p)
          /\ Line("page_empty", p, "returned no listings") \in Range(stdout)
          /\ futures[q].result # <<>>
          /\ completion = <<p, q>>
          /\ Range(futures[q].result) \subseteq Range(all_listings)

----------------------------------------------------------------------------
(* C9 *)

\* C9 as stated: when scrape_multiple_pages returns, the accumulator is the
\* concatenation, in the order the tasks completed, of the results of the
\* pages that completed without exception.
C9_CompletionOrder ==
    ScrapeReturned => all_listings = ConcatResults(completion)

\* C9 amended: at every moment the accumulator is the concatenation of the
\* results of the pages collected so far, in the order the collecting loop
\* received them, so no worker writes it and no record is lost, duplicated
\* or interleaved; when scrape_multiple_pages returns every page has been
\* collected once, the tasks already finished when the collection started
\* come first, in any order, and the others follow in the order they
\* completed.
C9_CollectionOrder ==
    /\ all_listings = ConcatResults(CollectedOrder)
    /\ ScrapeReturned =>
          LET n == request.num_pages
              k == Cardinality(ac.taken)
          IN  /\ Len(CollectedOrder) = n
              /\ Range(CollectedOrder) = 1..n
              /\ Range(completion) = 1..n
              /\ {CollectedOrder[i] : i \in 1..k} = ac.taken
              /\ SubSeq(CollectedOrder, k + 1, n) = SubSeq(completion, k + 1, n)

C9_Witness ==
    /\ ScrapeReturned
    /\ CollectedOrder # completion
    /\ all_listings # ConcatResults(completion)
    /\ all_listings = ConcatResults(CollectedOrder)

----------------------------------------------------------------------------
(* C10 *)

IndexUrlsFetched == {u \in BagToSet(netlog) : u.path = "hledani/prodej"}

Outcome(p) ==
    IF futures[p].exception # None THEN "page_error"
    ELSE IF futures[p].result # <<>> THEN "page_ok"
    ELSE "page_empty"

\* C10: every index GET issued is for a page of 1..N of the request and is
\* issued once; every per-page report is for a page of 1..N; and when
\* scrape_multiple_pages returns each page of 1..N has been fetched once
\* and reported exactly once, with the outcome of its task.
C10_OneFetchOneReport ==
    /\ \A u \in IndexUrlsFetched :
          /\ u.page \in 1..request.num_pages
          /\ u = IndexUrl(request.estate_type, request.region, u.page)
          /\ CopiesIn(u, netlog) = 1
    /\ \A l \in Range(PageLines) : l.page \in 1..request.num_pages
    /\ ScrapeReturned =>
          \A q \in 1..request.num_pages :
              /\ q \in Pages
              /\ IndexFetches(q) = 1
              /\ Cardinality({i \in DOMAIN PageLines : PageLines[i].page = q}) = 1
              /\ \E l \in Range(PageLines) : l.page = q /\ l.kind = Outcome(q)

C10_Witness ==
    /\ ScrapeReturned
    /\ request.num_pages >= 2
    /\ \E p, q \in Pages :
          /\ p # q
          /\ futures[p].response.kind = "raise"
          /\ Outcome(q) = "page_ok"
          /\ IndexFetches(p) = 1
          /\ IndexFetches(q) = 1

====
